---------------------------- MODULE Spec2Model ----------------------------
(***************************************************************************)
(* Model of the trajectory comparison and grading engine of               *)
(* disected_mmDTW.py and of the server of server.py that runs it.          *)
(*                                                                         *)
(* Numbers.  The engine works on floating-point reals; the model works on  *)
(* exact values built from integers:                                       *)
(*   - a coordinate is an integer number of micrometres (1e-6 m), so that  *)
(*     the epsilon 1e-6 of calculate_rom_metrics is the integer 1;         *)
(*   - a ratio is a record [num, den] standing for num/den (den > 0);      *)
(*   - a distance or an RMSE is a record [sq, den] standing for            *)
(*     sqrt(sq)/den (sq >= 0, den > 0), which is closed under the square   *)
(*     roots and the divisions the engine performs on them.                *)
(* Rounding error of the floating-point operations is not modelled.        *)
(*                                                                         *)
(* Indices.  Python sequences are 0-based; a trajectory is a TLA+ sequence *)
(* (1-based) and At(T, i) reads its 0-based element i.  Path entries are   *)
(* the 0-based pairs <<i, j>> of the source.                               *)
(***************************************************************************)
EXTENDS Integers, Sequences, FiniteSets, TLC

VARIABLES pc, args, ret

\* The server of server.py: its two module globals (lines 56-57), the mocap
\* subprocesses it has launched, its background threads (run, lines
\* 152-178), the requests it is handling, each in a thread of its own, and
\* the figures open in matplotlib.pyplot, which is one per process.
VARIABLES mocap_process, mocap_status, procs, threads, reqs, figures

server_vars == <<mocap_process, mocap_status, procs, threads, reqs, figures>>

vars == <<pc, args, ret, server_vars>>

(***************************************************************************)
(* Bounds of the checked inputs.                                           *)
(***************************************************************************)
MaxLen == 4
MaxRadius == 2
MaxRatioPct == 160
MaxRmseSq == 110
MaxShapeLimit == 10
MaxGradeSum == 30
MaxAxisErrSq == 2
MaxRequests == 2

\* The 3D points a checked trajectory is drawn from (micrometres).
Points == {<<0, 0, 0>>, <<1, 0, 2>>, <<0, 3, 1>>}

Axes == 1..3

At(T, i) == T[i + 1]

Abs(x) == IF x < 0 THEN -x ELSE x

Max2(a, b) == IF a >= b THEN a ELSE b

Min2(a, b) == IF a <= b THEN a ELSE b

RECURSIVE SeqsOfLen(_, _)
SeqsOfLen(S, n) ==
    IF n = 0 THEN {<<>>}
    ELSE {Append(s, x) : s \in SeqsOfLen(S, n - 1), x \in S}

\* Centring removes a common offset, so a checked trajectory starts at the
\* origin without loss of alignments.
Origin == <<0, 0, 0>>

TrajectoriesOver(S) ==
    UNION {{<<Origin>> \o s : s \in SeqsOfLen(S, n - 1)} : n \in 2..MaxLen}

Trajectories == TrajectoriesOver(Points)

\* The points a checked query of an alignment is drawn from.
QueryPoints == {<<0, 0, 0>>, <<1, 0, 2>>}

Queries == TrajectoriesOver(QueryPoints)

\* The sensitivity checked: the default 3.0 of line 103.
Sensitivities == {3}

(***************************************************************************)
(* Exact square-root values sqrt(sq)/den.                                  *)
(***************************************************************************)
Surd(sq, den) == [sq |-> sq, den |-> den]

\* numpy.inf, as the value of a cell no path reaches (costs are >= 0), and
\* numpy.sqrt(inf) = inf as a distance.
Inf == -1

IsFinite(c) == c # Inf

SurdInf == Surd(Inf, 1)

SurdIsInf(a) == a.sq = Inf

SurdIsZero(a) == a.sq = 0

\* a <= num/den for a square-root value a and integers num, den (den > 0):
\* a is >= 0, so num must be, and then the squares compare.
\* (sqrt(sq) <= sq and a.den >= 1, so sq * den <= num already gives it; this
\* settles the comparison without the squares when num/den is far larger
\* than a.)
SurdLeqRat(a, num, den) ==
    /\ ~SurdIsInf(a)
    /\ num >= 0
    /\ \/ a.sq * den <= num
       \/ a.sq * den * den <= num * num * a.den * a.den

(***************************************************************************)
(* Mean-centering (lines 108-109): T - mean(T, axis=0).  Centred(T) holds  *)
(* Len(T) times the centred coordinates, which keeps them integers:        *)
(* Len(T) * (T[k][a] - sum_a / Len(T)) = Len(T) * T[k][a] - sum_a.         *)
(***************************************************************************)
RECURSIVE AxisSum(_, _, _)
AxisSum(T, a, k) == IF k = 0 THEN 0 ELSE T[k][a] + AxisSum(T, a, k - 1)

Centred(T) ==
    [k \in 1..Len(T) |->
        [a \in Axes |-> Len(T) * T[k][a] - AxisSum(T, a, Len(T))]]

(***************************************************************************)
(* tslearn.metrics.dtw_path as called at lines 112-114, with               *)
(* global_constraint="sakoe_chiba".  s1 and s2 are Centred sequences, so   *)
(* the difference of the true coordinates of s1[i] and s2[j] is            *)
(* (sz2 * s1[i][a] - sz1 * s2[j][a]) / (sz1 * sz2): every cost below is    *)
(* (sz1 * sz2)^2 times the true cost.                                      *)
(***************************************************************************)

\* _local_squared_dist: the squared Euclidean distance over the three axes.
RECURSIVE SqDiffSum(_, _, _, _, _)
SqDiffSum(x, y, sx, sy, a) ==
    IF a = 0 THEN 0
    ELSE (sy * x[a] - sx * y[a]) * (sy * x[a] - sx * y[a])
         + SqDiffSum(x, y, sx, sy, a - 1)

local_squared_dist(s1, s2, i, j) ==
    SqDiffSum(At(s1, i), At(s2, j), Len(s1), Len(s2), 3)

\* Faulty variant: the plain band |i - j| <= radius, not widened by the difference of
\* the lengths.
sakoe_chiba_mask_unwidened(sz1, sz2, radius) ==
    {<<i, j>> \in (0..(sz1 - 1)) \X (0..(sz2 - 1)) : Abs(i - j) <= radius}

\* Faulty variant: the band one cell wider than the mask of the library.
sakoe_chiba_mask_wider(sz1, sz2, radius) ==
    {<<i, j>> \in (0..(sz1 - 1)) \X (0..(sz2 - 1)) :
        Abs(i - j) <= radius + Abs(sz1 - sz2) + 1}

\* sakoe_chiba_mask(sz1, sz2, radius): the cells the mask leaves finite.
\* A slice mask[lower:upper] is clipped to the array, hence the Min2.
sakoe_chiba_mask(sz1, sz2, radius) ==
    IF sz1 > sz2
    THEN LET width == sz1 - sz2 + radius
         IN  {<<i, j>> \in (0..(sz1 - 1)) \X (0..(sz2 - 1)) :
                 /\ i >= Max2(0, j - radius)
                 /\ i < Min2(sz1, Min2(sz1, j + width) + 1)}
    ELSE LET width == sz2 - sz1 + radius
         IN  {<<i, j>> \in (0..(sz1 - 1)) \X (0..(sz2 - 1)) :
                 /\ j >= Max2(0, i - radius)
                 /\ j < Min2(sz2, Min2(sz2, i + width) + 1)}

\* Faulty variant: the diagonal predecessor left out of the minimum.
Min3_no_diagonal(x, y, z) ==
    LET fin == {c \in {x, y} : IsFinite(c)}
    IN  IF fin = {} THEN Inf ELSE CHOOSE c \in fin : \A d \in fin : c <= d

\* min() of three cumulative costs, inf being above every finite cost.
Min3(x, y, z) ==
    LET fin == {c \in {x, y, z} : IsFinite(c)}
    IN  IF fin = {} THEN Inf ELSE CHOOSE c \in fin : \A d \in fin : c <= d

\* The cumulative cost of cell <<i, j>> of a matrix kept row by row in one
\* sequence of sz2-long rows; a cell of the inf padding (i or j below 0)
\* holds inf.
Cell(acc, sz2, i, j) ==
    IF i < 0 \/ j < 0 THEN Inf ELSE acc[i * sz2 + j + 1]

\* njit_accumulated_matrix: the cumulative cost of every cell, filled in
\* row-major order (acc holds the cells filled so far).  The padded
\* cum_sum[0, 0] = 0.0 of the source is the case of cell <<0, 0>>.
RECURSIVE FillAcc(_, _, _, _)
FillAcc(s1, s2, mask, acc) ==
    IF Len(acc) = Len(s1) * Len(s2) THEN acc
    ELSE LET sz2 == Len(s2)
             i == Len(acc) \div sz2
             j == Len(acc) % sz2
             best == IF i = 0 /\ j = 0 THEN 0
                     ELSE Min3(Cell(acc, sz2, i - 1, j),
                               Cell(acc, sz2, i, j - 1),
                               Cell(acc, sz2, i - 1, j - 1))
             cost == IF <<i, j>> \in mask /\ IsFinite(best)
                     THEN local_squared_dist(s1, s2, i, j) + best
                     ELSE Inf
         IN  FillAcc(s1, s2, mask, Append(acc, cost))

accumulated_matrix(s1, s2, mask) == FillAcc(s1, s2, mask, <<>>)

\* a < b on cumulative costs, inf being above every finite cost.
CostLess(a, b) == IsFinite(a) /\ (~IsFinite(b) \/ a < b)

\* numpy.argmin over [diagonal, up, left]: the first index holding the
\* minimum.
ArgminPred(acc, sz2, i, j) ==
    LET diag == Cell(acc, sz2, i - 1, j - 1)
        up == Cell(acc, sz2, i - 1, j)
        left == Cell(acc, sz2, i, j - 1)
    IN  IF ~CostLess(up, diag) /\ ~CostLess(left, diag) THEN <<i - 1, j - 1>>
        ELSE IF ~CostLess(left, up) THEN <<i - 1, j>>
        ELSE <<i, j - 1>>

\* _return_path: backtracking from the end cell, the list built backwards.
RECURSIVE BackPath(_, _, _)
BackPath(acc, sz2, path) ==
    LET last == path[Len(path)]
        i == last[1]
        j == last[2]
    IN  IF last = <<0, 0>> THEN path
        ELSE IF i = 0 THEN BackPath(acc, sz2, Append(path, <<0, j - 1>>))
        ELSE IF j = 0 THEN BackPath(acc, sz2, Append(path, <<i - 1, 0>>))
        ELSE BackPath(acc, sz2, Append(path, ArgminPred(acc, sz2, i, j)))

Reverse(s) == [k \in 1..Len(s) |-> s[Len(s) + 1 - k]]

return_path(acc, sz1, sz2) ==
    Reverse(BackPath(acc, sz2, <<(<<sz1 - 1, sz2 - 1>>)>>))

\* The return value of dtw_path from the accumulated matrix: the path and
\* the square root of the end cell's cumulative cost.  cost is the end cell's
\* cumulative cost, (sz1 * sz2)^2 times the true one, so sim_dist is
\* sqrt(cost) / (sz1 * sz2).
dtw_result(s1, s2, acc) ==
    LET end == Cell(acc, Len(s2), Len(s1) - 1, Len(s2) - 1)
    IN  [path |-> return_path(acc, Len(s1), Len(s2)),
         cost |-> end,
         sim_dist |-> IF IsFinite(end) THEN Surd(end, Len(s1) * Len(s2))
                      ELSE SurdInf]

\* dtw_path: the mask, the accumulated matrix, the path.  (A value bound in
\* a one-element set is computed once; CHOOSE takes the one result.)
dtw_path(s1, s2, radius) ==
    CHOOSE r \in {dtw_result(s1, s2, acc) :
                     acc \in {accumulated_matrix(s1, s2,
                                 sakoe_chiba_mask(Len(s1), Len(s2), radius))}} :
        TRUE

(***************************************************************************)
(* calculate_mdtw_with_sensitivity (lines 103-135).                        *)
(***************************************************************************)

\* Lines 121-126: the squared error of one axis summed along the path, times
\* (Len(tc) * Len(qc))^2 like the costs of dtw_path.
\* Faulty variant: the absolute error summed in place of its square.
RECURSIVE sq_err_unsquared(_, _, _, _, _)
sq_err_unsquared(tc, qc, path, a, k) ==
    IF k = 0 THEN 0
    ELSE Abs(Len(qc) * At(tc, path[k][1])[a] - Len(tc) * At(qc, path[k][2])[a])
         + sq_err_unsquared(tc, qc, path, a, k - 1)

RECURSIVE sq_err(_, _, _, _, _)
sq_err(tc, qc, path, a, k) ==
    IF k = 0 THEN 0
    ELSE LET d == Len(qc) * At(tc, path[k][1])[a]
                  - Len(tc) * At(qc, path[k][2])[a]
         IN  d * d + sq_err(tc, qc, path, a, k - 1)

\* Lines 128-130: sqrt(sq / path_length), sq being scale^2 times the true
\* sum: sqrt(sq * path_length) / (scale * path_length).
axis_rmse_of(sq, path_length, scale) ==
    Surd(sq * path_length, scale * path_length)

\* Line 118: sim_dist / sqrt(path_length), that is
\* sqrt(sq) / (den * sqrt(L)) = sqrt(sq * L) / (den * L); inf stays inf.
sqrt_div(sim_dist, path_length) ==
    IF SurdIsInf(sim_dist) THEN SurdInf
    ELSE Surd(sim_dist.sq * path_length, sim_dist.den * path_length)

\* Line 133 and the round of line 135.  The exponential is not computed:
\* the score is kept as the two factors of the exponent x of
\* round(100 * exp(-x), 2), x = sensitivity * global_rmse.
final_score(sensitivity, global_rmse) ==
    [sensitivity |-> sensitivity, rmse |-> global_rmse]

\* exp(-x) = 1 exactly when x = 0, and round(100.0, 2) = 100.0.
ScoreIs100(score) == score.sensitivity = 0 \/ SurdIsZero(score.rmse)

template_centered(template) == Centred(template)

\* Faulty variant: the query left uncentred (at the scale of Centred).
query_uncentred(query) ==
    [k \in 1..Len(query) |-> [a \in Axes |-> Len(query) * query[k][a]]]

query_centered(query) == Centred(query)

\* Lines 116-135 on the centred trajectories and the result of dtw_path.
mdtw_metrics(tc, qc, dtw, sensitivity) ==
    LET optimal_path == dtw.path
        path_length == Len(optimal_path)
        scale == Len(tc) * Len(qc)
        global_rmse == sqrt_div(dtw.sim_dist, path_length)
    IN  [optimal_path |-> optimal_path,
         cost |-> dtw.cost,
         sim_dist |-> dtw.sim_dist,
         path_length |-> path_length,
         global_rmse |-> global_rmse,
         axis_rmse |-> [a \in Axes |->
             axis_rmse_of(sq_err(tc, qc, optimal_path, a, path_length),
                          path_length, scale)],
         score |-> final_score(sensitivity, global_rmse)]

\* Lines 111-135.
mdtw_on_centred(tc, qc, sensitivity, radius) ==
    CHOOSE r \in {mdtw_metrics(tc, qc, dtw, sensitivity) :
                     dtw \in {dtw_path(tc, qc, radius)}} : TRUE

calculate_mdtw_with_sensitivity(template, query, sensitivity, radius) ==
    CHOOSE r \in {mdtw_on_centred(tc, qc, sensitivity, radius) :
                     tc \in {template_centered(template)},
                     qc \in {query_centered(query)}} : TRUE

(***************************************************************************)
(* calculate_rom_metrics (lines 47-62).                                    *)
(***************************************************************************)

\* The epsilon 1e-6 of line 56, in micrometres.
Eps == 1

AxisValues(data, a) == {data[k][a] : k \in 1..Len(data)}

SetMax(S) == CHOOSE x \in S : \A y \in S : x >= y

SetMin(S) == CHOOSE x \in S : \A y \in S : x <= y

\* np.ptp(data, axis=0): the peak-to-peak range of every axis.
ptp(data) ==
    [a \in Axes |-> SetMax(AxisValues(data, a)) - SetMin(AxisValues(data, a))]

\* Faulty variant: no substitution for a zero range.
avoid_zero_omitted(ref_range) == [a \in Axes |-> ref_range[a]]

\* Line 56: ref_range[ref_range == 0] = 1e-6.
avoid_zero(ref_range) ==
    [a \in Axes |-> IF ref_range[a] = 0 THEN Eps ELSE ref_range[a]]

\* Line 59: the elementwise quotient.  numpy does not raise on a zero
\* divisor: a quotient with den = 0 stands for its inf (num > 0) or nan
\* (num = 0).
divide(pat_range, ref_range) ==
    [a \in Axes |-> [num |-> pat_range[a], den |-> ref_range[a]]]

\* Line 60: np.mean of the three ratios, as one fraction.
mean_ratio(r) ==
    [num |-> r[1].num * r[2].den * r[3].den
             + r[2].num * r[1].den * r[3].den
             + r[3].num * r[1].den * r[2].den,
     den |-> 3 * r[1].den * r[2].den * r[3].den]

calculate_rom_metrics(ref_data, pat_data) ==
    LET ref_range == avoid_zero(ptp(ref_data))
        pat_range == ptp(pat_data)
        ratios == divide(pat_range, ref_range)
    IN  [avg_rom_ratio |-> mean_ratio(ratios),
         ratios |-> ratios,
         ref_range |-> ref_range,
         pat_range |-> pat_range]

(***************************************************************************)
(* get_rom_grade (lines 64-86).  A threshold t is compared in hundredths:  *)
(* num/den < t  <=>  100 * num < (100 * t) * den, den being positive.      *)
(* None is the value of a call that falls off the end of the function.     *)
(***************************************************************************)
None == "None"

RatioLt(ratio, pct) == 100 * ratio.num < pct * ratio.den

RatioLeq(ratio, pct) == 100 * ratio.num <= pct * ratio.den

\* Faulty variant: the perfect range taken without its two ends.
get_rom_grade_open(ratio) ==
    IF RatioLt(ratio, 50) \/ ~RatioLeq(ratio, 150) THEN 0
    ELSE IF ~RatioLeq(ratio, 95) /\ RatioLt(ratio, 105) THEN 10
    ELSE IF RatioLeq(ratio, 95)
         THEN IF ~RatioLt(ratio, 90) THEN 9
              ELSE IF ~RatioLt(ratio, 70) THEN 8
              ELSE 7
    ELSE IF RatioLeq(ratio, 110) THEN 9
    ELSE IF RatioLeq(ratio, 130) THEN 8
    ELSE 7

get_rom_grade(ratio) ==
    IF RatioLt(ratio, 50) \/ ~RatioLeq(ratio, 150) THEN 0
    ELSE IF ~RatioLt(ratio, 95) /\ RatioLeq(ratio, 105) THEN 10
    ELSE IF RatioLt(ratio, 95)
         THEN IF ~RatioLt(ratio, 90) THEN 9
              ELSE IF ~RatioLt(ratio, 70) THEN 8
              ELSE 7
    ELSE IF ~RatioLeq(ratio, 105)
         THEN IF RatioLeq(ratio, 110) THEN 9
              ELSE IF RatioLeq(ratio, 130) THEN 8
              ELSE 7
    ELSE None

(***************************************************************************)
(* get_shape_grade (lines 88-101).  rmse is a square-root value, limit an  *)
(* integer number of micrometres; step * k = limit * k / 5.                *)
(***************************************************************************)
\* a < num/den, as SurdLeqRat.
SurdLtRat(a, num, den) ==
    /\ ~SurdIsInf(a)
    /\ num > 0
    /\ a.sq * den * den < num * num * a.den * a.den

\* Faulty variant: every step taken without its upper end.
get_shape_grade_strict(rmse, limit) ==
    IF ~SurdLeqRat(rmse, limit, 1) THEN 0
    ELSE IF SurdLtRat(rmse, limit, 5) THEN 10
    ELSE IF SurdLtRat(rmse, limit * 2, 5) THEN 9
    ELSE IF SurdLtRat(rmse, limit * 3, 5) THEN 8
    ELSE IF SurdLtRat(rmse, limit * 4, 5) THEN 7
    ELSE 6

\* Faulty variant: the limit itself counted as a failure.
get_shape_grade_fail_at_limit(rmse, limit) ==
    IF ~SurdLtRat(rmse, limit, 1) THEN 0
    ELSE IF SurdLeqRat(rmse, limit, 5) THEN 10
    ELSE IF SurdLeqRat(rmse, limit * 2, 5) THEN 9
    ELSE IF SurdLeqRat(rmse, limit * 3, 5) THEN 8
    ELSE IF SurdLeqRat(rmse, limit * 4, 5) THEN 7
    ELSE 6

get_shape_grade(rmse, limit) ==
    IF ~SurdLeqRat(rmse, limit, 1) THEN 0
    ELSE IF SurdLeqRat(rmse, limit, 5) THEN 10
    ELSE IF SurdLeqRat(rmse, limit * 2, 5) THEN 9
    ELSE IF SurdLeqRat(rmse, limit * 3, 5) THEN 8
    ELSE IF SurdLeqRat(rmse, limit * 4, 5) THEN 7
    ELSE 6

\* Line 239 (server.py line 241): the grade of every axis ratio.
rom_axis_grades(rom_ratios) == [a \in Axes |-> get_rom_grade(rom_ratios[a])]

(***************************************************************************)
(* The calls.  Init draws the arguments of one call, the action applies    *)
(* the function and keeps its locals and its return value in ret.          *)
(***************************************************************************)
NoRet == [none |-> TRUE]

\* _mocap_process = None (server.py line 56); a launched subprocess is
\* known by its index in procs, 1, 2, ...
NoProcess == 0

\* server.py line 57; the message and the output file are left out.
IdleStatus == [state |-> "idle"]

\* The server before its first request; a call of the engine on its own
\* leaves it so.
ServerIdle ==
    /\ mocap_process = NoProcess
    /\ mocap_status = IdleStatus
    /\ procs = <<>>
    /\ threads = <<>>
    /\ reqs = <<>>
    /\ figures = {}

MdtwArgs ==
    [fn : {"calculate_mdtw_with_sensitivity"},
     template : Trajectories, query : Queries,
     sensitivity : Sensitivities, radius : 1..MaxRadius]

Init ==
    /\ pc = "call"
    /\ args \in MdtwArgs
    /\ ret = NoRet
    /\ ServerIdle

Call_mdtw ==
    /\ pc = "call"
    /\ args.fn = "calculate_mdtw_with_sensitivity"
    /\ ret' = calculate_mdtw_with_sensitivity(args.template, args.query,
                                               args.sensitivity, args.radius)
    /\ pc' = "done"
    /\ UNCHANGED <<args, server_vars>>

Next == Call_mdtw

Spec == Init /\ [][Next]_vars

MdtwDone == pc = "done" /\ args.fn = "calculate_mdtw_with_sensitivity"

(***************************************************************************)
(* Properties of the alignment (specification Spec).                       *)
(***************************************************************************)
RefLen == Len(args.template)

QueryLen == Len(args.query)

IsUnitStep(p, q) ==
    /\ q[1] - p[1] \in {0, 1}
    /\ q[2] - p[2] \in {0, 1}
    /\ q # p

WellFormedPath(path, n, m) ==
    /\ Len(path) >= 1
    /\ path[1] = <<0, 0>>
    /\ path[Len(path)] = <<n - 1, m - 1>>
    /\ \A k \in 1..(Len(path) - 1) : IsUnitStep(path[k], path[k + 1])

\* C1: for every reference and query of length >= 2 and every radius >= 1,
\* also when the lengths differ by more than the radius, the alignment
\* exists (its cost is finite) and its path starts at <<0, 0>>, ends at
\* <<n-1, m-1>> and advances i, j or both by exactly 1 at every step.
C1_PathWellFormed ==
    MdtwDone =>
        /\ IsFinite(ret.cost)
        /\ ~SurdIsInf(ret.sim_dist)
        /\ WellFormedPath(ret.optimal_path, RefLen, QueryLen)

C1_Witness ==
    /\ MdtwDone
    /\ Abs(RefLen - QueryLen) > args.radius
    /\ IsFinite(ret.cost)
    /\ WellFormedPath(ret.optimal_path, RefLen, QueryLen)

\* (In C2 a value bound in a one-element set is computed once.)
\* Every monotone unit-step path from <<0, 0>> to <<i, j>> inside a band.
RECURSIVE PathsTo(_, _, _)
PathsTo(i, j, band) ==
    IF i < 0 \/ j < 0 \/ <<i, j>> \notin band THEN {}
    ELSE IF i = 0 /\ j = 0 THEN {<<(<<0, 0>>)>>}
    ELSE {Append(p, <<i, j>>) :
             p \in PathsTo(i - 1, j, band) \cup PathsTo(i, j - 1, band)
                       \cup PathsTo(i - 1, j - 1, band)}

AdmissiblePaths ==
    [n \in 2..MaxLen, m \in 2..MaxLen, r \in 1..MaxRadius |->
        PathsTo(n - 1, m - 1, sakoe_chiba_mask(n, m, r))]

\* The local cost of every cell, row by row, and the cost of a path: the sum
\* of the local costs of its pairs.
LocalCosts(tc, qc) ==
    [c \in 1..(Len(tc) * Len(qc)) |->
        local_squared_dist(tc, qc, (c - 1) \div Len(qc), (c - 1) % Len(qc))]

RECURSIVE PathCost(_, _, _, _)
PathCost(costs, sz2, path, k) ==
    IF k = 0 THEN 0
    ELSE costs[path[k][1] * sz2 + path[k][2] + 1]
         + PathCost(costs, sz2, path, k - 1)

\* C2: the returned path is an admissible path of the band, its cumulative
\* cost (the sum of the squared 3-axis distances of its pairs) is the least
\* among all admissible paths, and the returned distance D satisfies
\* D^2 = that least cost.
C2_PathIsOptimal ==
    MdtwDone =>
        \A paths \in {AdmissiblePaths[RefLen, QueryLen, args.radius]} :
        \A costs \in {LocalCosts(template_centered(args.template),
                                 query_centered(args.query))} :
            /\ ret.optimal_path \in paths
            /\ PathCost(costs, QueryLen, ret.optimal_path, ret.path_length)
                   = ret.cost
            /\ \A p \in paths : ret.cost <= PathCost(costs, QueryLen, p, Len(p))
            /\ ret.sim_dist = Surd(ret.cost, RefLen * QueryLen)

C2_Witness ==
    /\ MdtwDone
    /\ RefLen # QueryLen
    /\ ret.cost > 0
    /\ \E paths \in {AdmissiblePaths[RefLen, QueryLen, args.radius]} :
       \E costs \in {LocalCosts(template_centered(args.template),
                                query_centered(args.query))} :
           /\ \E p \in paths : PathCost(costs, QueryLen, p, Len(p)) > ret.cost
           /\ \E p \in paths :
                  /\ p # ret.optimal_path
                  /\ PathCost(costs, QueryLen, p, Len(p)) = ret.cost

C8_IdentityShape ==
    (MdtwDone /\ args.template = args.query) =>
        /\ ret.cost = 0
        /\ SurdIsZero(ret.global_rmse)
        /\ \A a \in Axes : SurdIsZero(ret.axis_rmse[a])
        /\ ScoreIs100(ret.score)
        /\ \A limit \in 1..MaxShapeLimit :
               get_shape_grade(ret.global_rmse, limit) = 10

C8_Witness ==
    /\ MdtwDone
    /\ args.template = args.query
    /\ \E k \in 1..RefLen : args.template[k] # args.template[1]
    /\ ret.cost = 0
    /\ ScoreIs100(ret.score)

\* C18: the two RMSE definitions agree.  With L the path length,
\* global_rmse^2 (from the aggregate distance D of the alignment, D/sqrt(L))
\* equals rmse_x^2 + rmse_y^2 + rmse_z^2 (recomputed from the centred points
\* along the path), and D^2 equals the squared differences of the three axes
\* summed along the path.
C18_RmseDefinitionsAgree ==
    MdtwDone =>
        /\ ~SurdIsInf(ret.global_rmse)
        /\ \A a \in Axes : ret.axis_rmse[a].den = ret.global_rmse.den
        /\ ret.global_rmse.sq =
               ret.axis_rmse[1].sq + ret.axis_rmse[2].sq + ret.axis_rmse[3].sq
        /\ \A tc \in {template_centered(args.template)} :
           \A qc \in {query_centered(args.query)} :
               ret.sim_dist.sq =
                   sq_err(tc, qc, ret.optimal_path, 1, ret.path_length)
                   + sq_err(tc, qc, ret.optimal_path, 2, ret.path_length)
                   + sq_err(tc, qc, ret.optimal_path, 3, ret.path_length)

C18_Witness ==
    /\ MdtwDone
    /\ ret.global_rmse.sq > 0
    /\ \A a \in Axes : ret.axis_rmse[a].sq > 0
    /\ ret.path_length > Len(args.template)
    /\ ret.path_length > Len(args.query)

\* The ROM step of an analysis (lines 236 and 239): the ratios and the grade
\* of every axis.
WorkedScenario == <<(<<0, 0, 0>>), (<<1, 0, 0>>), (<<2, 0, 0>>)>>

RomTrajectories == Trajectories \cup {WorkedScenario}

RomArgs ==
    [fn : {"calculate_rom_metrics"},
     ref_data : RomTrajectories, pat_data : RomTrajectories]

InitROM ==
    /\ pc = "call"
    /\ args \in RomArgs
    /\ ret = NoRet
    /\ ServerIdle

Call_rom ==
    /\ pc = "call"
    /\ args.fn = "calculate_rom_metrics"
    /\ LET rom == calculate_rom_metrics(args.ref_data, args.pat_data)
       IN  ret' = [rom_ratio |-> rom.avg_rom_ratio,
                   rom_ratios |-> rom.ratios,
                   ref_range |-> rom.ref_range,
                   pat_range |-> rom.pat_range,
                   rom_axis_grades |-> rom_axis_grades(rom.ratios)]
    /\ pc' = "done"
    /\ UNCHANGED <<args, server_vars>>

NextROM == Call_rom

SpecROM == InitROM /\ [][NextROM]_vars

RomDone == pc = "done" /\ args.fn = "calculate_rom_metrics"

(***************************************************************************)
(* Properties of the ROM metrics (specification SpecROM).                  *)
(***************************************************************************)
IsConstantOn(data, a) == \A k \in 1..Len(data) : data[k][a] = data[1][a]

IsOne(ratio) == ratio.den > 0 /\ ratio.num = ratio.den

\* C9: a trajectory compared with itself, also one that is constant on some
\* axis: the ratio of every axis is 1.0, the mean ratio is 1.0 and the grade
\* of every axis is 10.
C9_IdentityRom ==
    (/\ RomDone
     /\ args.ref_data = args.pat_data
     /\ \E k \in 1..Len(args.ref_data) : args.ref_data[k] # args.ref_data[1]) =>
        /\ \A a \in Axes : IsOne(ret.rom_ratios[a])
        /\ IsOne(ret.rom_ratio)
        /\ \A a \in Axes : ret.rom_axis_grades[a] = 10

RatioDen == 100 * 100

GradeRatios ==
    {[num |-> 100 * k + d, den |-> RatioDen] :
        k \in (-1)..MaxRatioPct, d \in {-1, 0, 1}}

RomGradeArgs == [fn : {"get_rom_grade"}, ratio : GradeRatios]

ShapeGradeArgs ==
    [fn : {"get_shape_grade"},
     rmse : {Surd(q, 1) : q \in 0..MaxRmseSq}, limit : 1..MaxShapeLimit]

InitGrade ==
    /\ pc = "call"
    /\ args \in RomGradeArgs \cup ShapeGradeArgs
    /\ ret = NoRet
    /\ ServerIdle

Call_get_rom_grade ==
    /\ pc = "call"
    /\ args.fn = "get_rom_grade"
    /\ ret' = [grade |-> get_rom_grade(args.ratio)]
    /\ pc' = "done"
    /\ UNCHANGED <<args, server_vars>>

Call_get_shape_grade ==
    /\ pc = "call"
    /\ args.fn = "get_shape_grade"
    /\ ret' = [grade |-> get_shape_grade(args.rmse, args.limit)]
    /\ pc' = "done"
    /\ UNCHANGED <<args, server_vars>>

NextGrade == Call_get_rom_grade \/ Call_get_shape_grade

SpecGrade == InitGrade /\ [][NextGrade]_vars

RomGradeDone == pc = "done" /\ args.fn = "get_rom_grade"

ShapeGradeDone == pc = "done" /\ args.fn = "get_shape_grade"

(***************************************************************************)
(* Properties of the grade functions (specification SpecGrade).            *)
(***************************************************************************)

\* The grade table of the ROM ratio, x being the ratio in ten-thousandths.
TableGrade(x) ==
    CASE x < 5000 \/ x > 15000 -> 0
      [] 9500 <= x /\ x <= 10500 -> 10
      [] (9000 <= x /\ x < 9500) \/ (10500 < x /\ x <= 11000) -> 9
      [] (7000 <= x /\ x < 9000) \/ (11000 < x /\ x <= 13000) -> 8
      [] (5000 <= x /\ x < 7000) \/ (13000 < x /\ x <= 15000) -> 7
      [] OTHER -> None

\* C4: get_rom_grade returns the grade of the table for every ratio, always
\* one of 0, 7, 8, 9, 10; 0.95 and 1.05 give 10, 0.4999 and 1.5001 give 0.
C4_RomGradeTable ==
    RomGradeDone =>
        /\ args.ratio.den = 10000
        /\ ret.grade = TableGrade(args.ratio.num)
        /\ ret.grade \in {0, 7, 8, 9, 10}
        /\ args.ratio.num \in {9500, 10500} => ret.grade = 10
        /\ args.ratio.num \in {4999, 15001} => ret.grade = 0

C4_Witness ==
    /\ RomGradeDone
    /\ args.ratio.num = 9500
    /\ args.ratio.den = 10000
    /\ ret.grade = 10

Clamp(x, lo, hi) == IF x < lo THEN lo ELSE IF x > hi THEN hi ELSE x

\* floor and ceiling of rmse / step = 5 * sqrt(q) / limit, for rmse <= limit
\* (where both are in 0..5); q is the square of the RMSE.
FloorSteps(q, limit) ==
    CHOOSE k \in 0..5 :
        /\ k * k * limit * limit <= 25 * q
        /\ k = 5 \/ 25 * q < (k + 1) * (k + 1) * limit * limit

CeilSteps(q, limit) ==
    CHOOSE k \in 0..5 :
        /\ 25 * q <= k * k * limit * limit
        /\ k = 0 \/ (k - 1) * (k - 1) * limit * limit < 25 * q

\* C5 as stated: the grade is 0 when rmse > limit and otherwise
\* 10 - floor(rmse / step) clamped to 6..10, always one of 0, 6, ..., 10.
C5_GradeByFloor ==
    ShapeGradeDone =>
        /\ ret.grade \in {0, 6, 7, 8, 9, 10}
        /\ ret.grade =
               IF args.rmse.sq > args.limit * args.limit THEN 0
               ELSE Clamp(10 - FloorSteps(args.rmse.sq, args.limit), 6, 10)

\* C5 as amended: the grade is 0 when rmse > limit and otherwise
\* 11 - ceil(rmse / step) clamped to 6..10 (the upper end of every step
\* belongs to the step), always one of 0, 6, ..., 10.
C5_GradeByCeil ==
    ShapeGradeDone =>
        /\ ret.grade \in {0, 6, 7, 8, 9, 10}
        /\ ret.grade =
               IF args.rmse.sq > args.limit * args.limit THEN 0
               ELSE Clamp(11 - CeilSteps(args.rmse.sq, args.limit), 6, 10)

C5_Witness ==
    /\ ShapeGradeDone
    /\ 25 * args.rmse.sq = 4 * args.limit * args.limit
    /\ ret.grade = 9

\* C6 as stated: an RMSE equal to the limit gets shape grade 0.
C6_LimitGivesZero ==
    (ShapeGradeDone /\ args.rmse.sq = args.limit * args.limit) =>
        ret.grade = 0

\* C6 as amended: an RMSE equal to the limit gets shape grade 6, the lowest
\* passing grade; the grade is 0 only above the limit.
C6_LimitGivesSix ==
    ShapeGradeDone =>
        /\ args.rmse.sq = args.limit * args.limit => ret.grade = 6
        /\ ret.grade = 0 <=> args.rmse.sq > args.limit * args.limit

C6_Witness ==
    /\ ShapeGradeDone
    /\ args.rmse.sq = args.limit * args.limit
    /\ ret.grade = 6

\* C7: an RMSE equal to limit / 5 gets shape grade 10.
C7_FifthGivesTen ==
    (ShapeGradeDone /\ 25 * args.rmse.sq = args.limit * args.limit) =>
        ret.grade = 10

C7_Witness ==
    /\ ShapeGradeDone
    /\ 25 * args.rmse.sq = args.limit * args.limit
    /\ args.rmse.sq > 0
    /\ ret.grade = 10

(***************************************************************************)
(* generate_therapist_report (lines 139-188).  The report is the sequence  *)
(* of its lines; the lines that only format a number (lines 148-153,       *)
(* 168-170, 175-178) are left out, the headers and the status lines are    *)
(* the strings of the source.                                              *)
(***************************************************************************)
SurdEq(a, b) == a.sq * b.den * b.den = b.sq * a.den * a.den

SurdLeq(a, b) == a.sq * b.den * b.den <= b.sq * a.den * a.den

\* max(rmse_x, rmse_y, rmse_z) of line 173: the first of the largest.
max_err_of(axis_rmse) ==
    axis_rmse[CHOOSE a \in Axes : \A b \in Axes : SurdLeq(axis_rmse[b], axis_rmse[a])]

\* Lines 155-164.
rom_status_line(avg_rom_grade, rom_ratio) ==
    IF RatioLt(avg_rom_grade, 100)
    THEN "  > STATUS: CRITICAL FAILURE (Wrong Motion)"
    ELSE IF ~RatioLt(avg_rom_grade, 900) THEN "  > STATUS: EXCELLENT ROM"
    ELSE IF RatioLt(rom_ratio, 90) THEN "  > STATUS: RESTRICTED (Too Small)"
    ELSE IF ~RatioLeq(rom_ratio, 110) THEN "  > STATUS: EXCESSIVE (Too Large)"
    ELSE "  > STATUS: MILD DEVIATION"

\* Lines 180-186.
shape_status_lines(shape_grade, axis_rmse) ==
    IF shape_grade = 0
    THEN <<"  > STATUS: INCORRECT SHAPE (Mismatch)",
           IF SurdEq(max_err_of(axis_rmse), axis_rmse[1])
           THEN "    -> MAIN ISSUE: Horizontal Path (X)"
           ELSE IF SurdEq(max_err_of(axis_rmse), axis_rmse[2])
           THEN "    -> MAIN ISSUE: Vertical Path (Y)"
           ELSE "    -> MAIN ISSUE: Depth Control (Z)">>
    ELSE <<"  > STATUS: GOOD SHAPE MATCH">>

\* Faulty variant: the ratio of the ROM looked at before its grade.
generate_therapist_report_ratio_first(rom_ratio, avg_rom_grade, rom_grades, rom_ratios, global_rmse, shape_grade, axis_rmse, shape_limit) ==
    <<"RANGE OF MOTION (ROM)",
      IF RatioLt(rom_ratio, 90) THEN "  > STATUS: RESTRICTED (Too Small)"
      ELSE IF ~RatioLeq(rom_ratio, 110) THEN "  > STATUS: EXCESSIVE (Too Large)"
      ELSE rom_status_line(avg_rom_grade, rom_ratio),
      "\nSHAPE QUALITY (RMSE)">>
    \o shape_status_lines(shape_grade, axis_rmse)

\* Faulty variant: among equal largest errors the last axis named.
generate_therapist_report_last_tie(rom_ratio, avg_rom_grade, rom_grades, rom_ratios, global_rmse, shape_grade, axis_rmse, shape_limit) ==
    <<"RANGE OF MOTION (ROM)",
      rom_status_line(avg_rom_grade, rom_ratio),
      "\nSHAPE QUALITY (RMSE)">>
    \o (IF shape_grade = 0
        THEN <<"  > STATUS: INCORRECT SHAPE (Mismatch)",
               IF SurdEq(max_err_of(axis_rmse), axis_rmse[3])
               THEN "    -> MAIN ISSUE: Depth Control (Z)"
               ELSE IF SurdEq(max_err_of(axis_rmse), axis_rmse[2])
               THEN "    -> MAIN ISSUE: Vertical Path (Y)"
               ELSE "    -> MAIN ISSUE: Horizontal Path (X)">>
        ELSE <<"  > STATUS: GOOD SHAPE MATCH">>)

generate_therapist_report(rom_ratio, avg_rom_grade, rom_grades, rom_ratios, global_rmse, shape_grade, axis_rmse, shape_limit) ==
    <<"RANGE OF MOTION (ROM)",
      rom_status_line(avg_rom_grade, rom_ratio),
      "\nSHAPE QUALITY (RMSE)">>
    \o shape_status_lines(shape_grade, axis_rmse)

\* A call of generate_therapist_report on its own.  The average grade is
\* drawn in thirds, the average ratio in hundredths around 0.90 and 1.10,
\* the error of an axis is sqrt(q) micrometres.
ReportAvgGrades == {[num |-> s, den |-> 3] : s \in 0..MaxGradeSum}

ReportRatios ==
    {[num |-> k, den |-> 100] : k \in {0, 89, 90, 91, 100, 109, 110, 111, 200}}

ReportArgs ==
    [fn : {"generate_therapist_report"},
     rom_ratio : ReportRatios, avg_rom_grade : ReportAvgGrades,
     shape_grade : {0, 6, 10},
     axis_rmse : [Axes -> {Surd(q, 1) : q \in 0..MaxAxisErrSq}]]

InitReport ==
    /\ pc = "call"
    /\ args \in ReportArgs
    /\ ret = NoRet
    /\ ServerIdle

Call_generate_therapist_report ==
    /\ pc = "call"
    /\ args.fn = "generate_therapist_report"
    /\ ret' = [report |->
                  generate_therapist_report(args.rom_ratio, args.avg_rom_grade,
                      <<>>, <<>>, Surd(0, 1), args.shape_grade,
                      args.axis_rmse, 0)]
    /\ pc' = "done"
    /\ UNCHANGED <<args, server_vars>>

NextReport == Call_generate_therapist_report

SpecReport == InitReport /\ [][NextReport]_vars

ReportDone == pc = "done" /\ args.fn = "generate_therapist_report"

(***************************************************************************)
(* Properties of the report (specification SpecReport).                    *)
(***************************************************************************)
RomStatusLines ==
    {"  > STATUS: CRITICAL FAILURE (Wrong Motion)",
     "  > STATUS: EXCELLENT ROM",
     "  > STATUS: RESTRICTED (Too Small)",
     "  > STATUS: EXCESSIVE (Too Large)",
     "  > STATUS: MILD DEVIATION"}

MainIssueLines ==
    <<"    -> MAIN ISSUE: Horizontal Path (X)",
      "    -> MAIN ISSUE: Vertical Path (Y)",
      "    -> MAIN ISSUE: Depth Control (Z)">>

Range(s) == {s[k] : k \in 1..Len(s)}

LinesIn(report, S) == {k \in 1..Len(report) : report[k] \in S}

\* The status of the stated precedence, g3 being three times the average
\* grade and r the average ratio in hundredths.
StatedRomStatus(g3, r) ==
    IF g3 < 3 THEN "  > STATUS: CRITICAL FAILURE (Wrong Motion)"
    ELSE IF g3 >= 27 THEN "  > STATUS: EXCELLENT ROM"
    ELSE IF r < 90 THEN "  > STATUS: RESTRICTED (Too Small)"
    ELSE IF r > 110 THEN "  > STATUS: EXCESSIVE (Too Large)"
    ELSE "  > STATUS: MILD DEVIATION"

\* C11: the report holds exactly one ROM status line, the one of the
\* precedence CRITICAL FAILURE (average grade < 1), EXCELLENT (>= 9),
\* RESTRICTED (ratio < 0.90), EXCESSIVE (ratio > 1.10), MILD DEVIATION; an
\* average grade >= 9 with a ratio < 0.90 is EXCELLENT.
C11_RomStatusPrecedence ==
    ReportDone =>
        /\ Cardinality(LinesIn(ret.report, RomStatusLines)) = 1
        /\ \A k \in LinesIn(ret.report, RomStatusLines) :
               ret.report[k] = StatedRomStatus(args.avg_rom_grade.num,
                                               args.rom_ratio.num)
        /\ (args.avg_rom_grade.num >= 27 /\ args.rom_ratio.num < 90) =>
               "  > STATUS: EXCELLENT ROM" \in Range(ret.report)

C11_Witness ==
    /\ ReportDone
    /\ args.avg_rom_grade.num = 27
    /\ args.rom_ratio.num = 89
    /\ "  > STATUS: EXCELLENT ROM" \in Range(ret.report)
    /\ "  > STATUS: RESTRICTED (Too Small)" \notin Range(ret.report)

\* The axes whose error is the largest of the three.
LargestAxes(axis_rmse) ==
    {a \in Axes : \A b \in Axes : axis_rmse[b].sq <= axis_rmse[a].sq}

FirstOf(S) == CHOOSE a \in S : \A b \in S : a <= b

\* C13: a shape grade other than 0 reports GOOD SHAPE MATCH and no main
\* issue; the shape grade 0 reports INCORRECT SHAPE with exactly one main
\* issue line, the one of the first axis, in the order X, Y, Z, among those
\* with the largest per-axis RMSE.
C13_ShapeStatus ==
    ReportDone =>
        LET issues == LinesIn(ret.report, Range(MainIssueLines))
        IN  IF args.shape_grade # 0
            THEN /\ "  > STATUS: GOOD SHAPE MATCH" \in Range(ret.report)
                 /\ "  > STATUS: INCORRECT SHAPE (Mismatch)"
                        \notin Range(ret.report)
                 /\ issues = {}
            ELSE /\ "  > STATUS: INCORRECT SHAPE (Mismatch)"
                        \in Range(ret.report)
                 /\ "  > STATUS: GOOD SHAPE MATCH" \notin Range(ret.report)
                 /\ Cardinality(issues) = 1
                 /\ \A k \in issues :
                        ret.report[k] =
                            MainIssueLines[FirstOf(LargestAxes(args.axis_rmse))]

C13_Witness ==
    /\ ReportDone
    /\ args.shape_grade = 0
    /\ args.axis_rmse[1].sq = 1
    /\ args.axis_rmse[2].sq = 2
    /\ args.axis_rmse[3].sq = 2
    /\ "    -> MAIN ISSUE: Vertical Path (Y)" \in Range(ret.report)

(***************************************************************************)
(* The analysis entry points: run_analysis (lines 226-259) and the         *)
(* /analyze handler of server.py (lines 200-280).  A caller names two      *)
(* files and may give a sensitivity and a shape limit; neither takes a     *)
(* radius.                                                                 *)
(***************************************************************************)

\* The defaults of the signatures: sensitivity=3.0 and radius=10 (line 103,
\* line 226, server.py line 217), shape_limit_m=0.10 (line 226) and
\* shape_tolerance 0.20 (server.py line 218), in micrometres.
DefaultSensitivity == 3
DefaultRadius == 10
DefaultShapeLimit == 100000
DefaultShapeTolerance == 200000

\* A parameter of a call or a key of a request body: the empty sequence when
\* the caller did not give it, the one-element sequence of its value when
\* they did.
Omitted == <<>>

Given(v) == <<v>>

\* The files of the two folders, by the trajectory extract_hand_data reads
\* from them.
Recordings ==
    [worked |-> WorkedScenario,
     graded_ref |-> <<(<<0, 0, 0>>), (<<1, 5, 1>>)>>,
     graded_pat |-> <<(<<0, 0, 0>>), (<<1, 4, 3>>)>>,
     moved |-> <<(<<0, 0, 0>>), (<<1, 0, 2>>), (<<0, 3, 1>>)>>,
     single |-> <<(<<0, 0, 0>>)>>]

FileNames == DOMAIN Recordings

extract_hand_data(file) == Recordings[file]

\* Faulty variant: the worst axis taken for the overall grade.
mean_grades_worst_axis(grades) ==
    [num |-> 3 * SetMin({grades[a] : a \in Axes}), den |-> 3]

\* np.mean(rom_axis_grades) of line 240 (server.py line 242), as a fraction.
mean_grades(grades) == [num |-> grades[1] + grades[2] + grades[3], den |-> 3]

\* Lines 238-246 (server.py lines 241-248) on the results of the two core
\* functions.
analysis_report(mdtw, rom, shape_limit) ==
    LET grades == rom_axis_grades(rom.ratios)
        avg_rom_grade == mean_grades(grades)
        shape_grade == get_shape_grade(mdtw.global_rmse, shape_limit)
    IN  [score |-> mdtw.score,
         global_rmse |-> mdtw.global_rmse,
         axis_rmse |-> mdtw.axis_rmse,
         rom_ratio |-> rom.avg_rom_ratio,
         rom_ratios |-> rom.ratios,
         rom_axis_grades |-> grades,
         avg_rom_grade |-> avg_rom_grade,
         shape_grade |-> shape_grade,
         report_text |->
             generate_therapist_report(rom.avg_rom_ratio, avg_rom_grade,
                 grades, rom.ratios, mdtw.global_rmse, shape_grade,
                 mdtw.axis_rmse, shape_limit)]

\* Lines 235-246 (server.py lines 236-248): calculate_mdtw_with_sensitivity
\* is called without a radius, so with its default.
core_analysis(ref_data, pat_data, sensitivity, shape_limit) ==
    CHOOSE r \in {analysis_report(mdtw, rom, shape_limit) :
                     mdtw \in {calculate_mdtw_with_sensitivity(ref_data,
                                  pat_data, sensitivity, DefaultRadius)},
                     rom \in {calculate_rom_metrics(ref_data, pat_data)}} :
        TRUE

\* A keyword argument, or data.get(key, default) of a request body.
ValueOr(param, default) == IF param = Omitted THEN default ELSE param[1]

GivenSensitivities == {Given(v) : v \in {-1, 0, 2}} \cup {Omitted}

GivenShapeLimits == {Given(v) : v \in {-1, 0, 2, MaxShapeLimit}} \cup {Omitted}

RunAnalysisArgs ==
    [fn : {"run_analysis"},
     ref_path : FileNames, pat_path : FileNames,
     sensitivity : GivenSensitivities, shape_limit_m : GivenShapeLimits]

\* The body of a POST /analyze; None is a field that is missing, and
\* "absent" names a file that is in neither folder.
AnalyzeArgs ==
    [fn : {"analyze"},
     template_file : FileNames \cup {"absent", None},
     patient_file : FileNames \cup {"absent", None},
     sensitivity : GivenSensitivities, shape_tolerance : GivenShapeLimits]

InitAnalysis ==
    /\ pc = "call"
    /\ args \in RunAnalysisArgs \cup AnalyzeArgs
    /\ ret = NoRet
    /\ ServerIdle

\* run_analysis with noise_level at its default 0.0: the analytics it
\* prints and the score it returns.
Call_run_analysis ==
    /\ pc = "call"
    /\ args.fn = "run_analysis"
    /\ ret' = [outcome |-> "result",
               result |-> core_analysis(extract_hand_data(args.ref_path),
                              extract_hand_data(args.pat_path),
                              ValueOr(args.sensitivity, DefaultSensitivity),
                              ValueOr(args.shape_limit_m, DefaultShapeLimit))]
    /\ pc' = "done"
    /\ UNCHANGED <<args, server_vars>>

\* server.py lines 213-229: the error response of a request that names no
\* file or a file that is not there, NoRet for a request that goes on.
analyze_validate(data) ==
    IF data.patient_file = None \/ data.template_file = None
    THEN [outcome |-> "error", status |-> 400,
          error |-> "patient_file and template_file are required"]
    ELSE IF data.patient_file \notin FileNames
    THEN [outcome |-> "error", status |-> 404,
          error |-> "Patient file not found"]
    ELSE IF data.template_file \notin FileNames
    THEN [outcome |-> "error", status |-> 404,
          error |-> "Template file not found"]
    ELSE NoRet

\* Faulty variant: the sensitivity taken from the caller only while no
\* recording is going on.
analyze_core_shared(data) ==
    core_analysis(extract_hand_data(data.template_file),
                  extract_hand_data(data.patient_file),
                  IF mocap_status.state = "recording" THEN DefaultSensitivity
                  ELSE ValueOr(data.sensitivity, DefaultSensitivity),
                  ValueOr(data.shape_tolerance, DefaultShapeTolerance))

\* server.py lines 232-248.
analyze_core(data) ==
    core_analysis(extract_hand_data(data.template_file),
                  extract_hand_data(data.patient_file),
                  ValueOr(data.sensitivity, DefaultSensitivity),
                  ValueOr(data.shape_tolerance, DefaultShapeTolerance))

\* The /analyze handler: the response, its result fields before the
\* rounding of lines 255-268 and without the image.
Call_analyze ==
    /\ pc = "call"
    /\ args.fn = "analyze"
    /\ ret' = IF analyze_validate(args) # NoRet THEN analyze_validate(args)
              ELSE [outcome |-> "result", status |-> 200,
                    result |-> analyze_core(args)]
    /\ pc' = "done"
    /\ UNCHANGED <<args, server_vars>>

NextAnalysis == Call_run_analysis \/ Call_analyze

SpecAnalysis == InitAnalysis /\ [][NextAnalysis]_vars

AnalysisDone == pc = "done" /\ args.fn \in {"run_analysis", "analyze"}

(***************************************************************************)
(* Properties of the analysis entry points (specification SpecAnalysis).   *)
(***************************************************************************)
HasResult == AnalysisDone /\ ret.outcome = "result"

RefData ==
    extract_hand_data(IF args.fn = "analyze" THEN args.template_file
                      ELSE args.ref_path)

PatData ==
    extract_hand_data(IF args.fn = "analyze" THEN args.patient_file
                      ELSE args.pat_path)

GivenShapeLimit ==
    IF args.fn = "analyze" THEN args.shape_tolerance ELSE args.shape_limit_m

CriticalFailure == "  > STATUS: CRITICAL FAILURE (Wrong Motion)"

\* C12: the overall ROM grade of run_analysis and of /analyze is the mean of
\* the three grades get_rom_grade gives the axis ratios; the grades
\* <<10, 8, 0>> give 6.0 and a status other than CRITICAL FAILURE, which is
\* reported only when the mean of the three grades is below 1.
C12_MeanOfAxisGrades ==
    HasResult =>
        LET r == ret.result
            g == r.rom_axis_grades
        IN  /\ \A a \in Axes : g[a] = get_rom_grade(r.rom_ratios[a])
            /\ r.avg_rom_grade.den = 3
            /\ r.avg_rom_grade.num = g[1] + g[2] + g[3]
            /\ CriticalFailure \in Range(r.report_text) <=> g[1] + g[2] + g[3] < 3
            /\ g = <<10, 8, 0>> =>
                   /\ r.avg_rom_grade.num = 6 * r.avg_rom_grade.den
                   /\ CriticalFailure \notin Range(r.report_text)

C12_Witness ==
    /\ HasResult
    /\ args.fn = "analyze"
    /\ ret.result.rom_axis_grades = <<10, 8, 0>>
    /\ ret.result.avg_rom_grade = [num |-> 18, den |-> 3]
    /\ CriticalFailure \notin Range(ret.result.report_text)

\* C14 as stated: when the reference or the query has fewer than 2 points
\* the analysis signals an InvalidInputError and produces no score, RMSE or
\* grade.
C14_ShortInputRejected ==
    (/\ AnalysisDone
     /\ args.fn = "run_analysis" \/ ret.status \notin {400, 404}
     /\ Len(RefData) < 2 \/ Len(PatData) < 2) =>
        /\ ret.outcome = "error"
        /\ ret.error = "InvalidInputError"

\* C15 as stated: a sensitivity or a shape limit <= 0 raises a
\* ConfigurationError; no score, shape grade or report is produced from it.
C15_NonPositiveRejected ==
    (/\ AnalysisDone
     /\ args.fn = "run_analysis" \/ ret.status \notin {400, 404}
     /\ \/ args.sensitivity # Omitted /\ args.sensitivity[1] <= 0
        \/ GivenShapeLimit # Omitted /\ GivenShapeLimit[1] <= 0) =>
        /\ ret.outcome = "error"
        /\ ret.error = "ConfigurationError"

\* C16 as stated: no default stands in for a parameter of the computation:
\* every result is computed with the sensitivity and the shape limit the
\* caller gave, and a call that omits one of them gets no result.
C16_NoSilentDefault ==
    HasResult =>
        /\ args.sensitivity # Omitted
        /\ GivenShapeLimit # Omitted
        /\ ret.result.score.sensitivity = args.sensitivity[1]

(***************************************************************************)
(* The server (server.py).  Flask serves every request in a thread of its  *)
(* own, and run (lines 152-178) is a thread too: a handler is cut into     *)
(* steps at its reads and writes of the globals, and the steps of          *)
(* different threads interleave.                                           *)
(***************************************************************************)
Routes == {"mocap_start", "mocap_status", "mocap_stop", "analyze"}

\* The bodies of the requests of a route.
Bodies(route) ==
    IF route = "mocap_start" THEN {[duration |-> 8]}
    ELSE IF route = "analyze"
    THEN {[template_file |-> "graded_ref", patient_file |-> "graded_pat",
           sensitivity |-> Given(2), shape_tolerance |-> Given(2)],
          [template_file |-> "worked", patient_file |-> "absent",
           sensitivity |-> Omitted, shape_tolerance |-> Omitted]}
    ELSE {NoRet}

\* poll() is None: the subprocess has not exited.
IsRunning(p) == procs[p] \in {"running", "signalled"}

Handling(r, route, at) ==
    /\ r \in 1..Len(reqs)
    /\ reqs[r].route = route
    /\ reqs[r].pc = at

Respond(r, response) ==
    reqs' = [reqs EXCEPT ![r].pc = "done", ![r].resp = response]

Goto(r, at) == reqs' = [reqs EXCEPT ![r].pc = at]

InitServer ==
    /\ pc = "serving"
    /\ args = NoRet
    /\ ret = NoRet
    /\ ServerIdle

\* A request arrives.
Receive ==
    /\ Len(reqs) < MaxRequests
    /\ \E route \in Routes : \E data \in Bodies(route) :
           reqs' = Append(reqs, [route |-> route, data |-> data,
                                 pc |-> "begin", result |-> NoRet,
                                 resp |-> NoRet])
    /\ UNCHANGED <<pc, args, ret, mocap_process, mocap_status, procs, threads,
                   figures>>

\* mocap_start, lines 144-145: the check of the running recording.
mocap_start_check(r) ==
    /\ Handling(r, "mocap_start", "begin")
    /\ IF mocap_process # NoProcess /\ IsRunning(mocap_process)
       THEN Respond(r, [status |-> 400,
                        error |-> "Recording already in progress"])
       ELSE Goto(r, "line 150")
    /\ UNCHANGED <<pc, args, ret, mocap_process, mocap_status, procs, threads,
                   figures>>

\* mocap_start, lines 147-150.
mocap_start_set_status(r) ==
    /\ Handling(r, "mocap_start", "line 150")
    /\ mocap_status' = [state |-> "recording"]
    /\ Goto(r, "line 180")
    /\ UNCHANGED <<pc, args, ret, mocap_process, procs, threads, figures>>

\* mocap_start, lines 180-181: the thread of run is started.
mocap_start_thread(r) ==
    /\ Handling(r, "mocap_start", "line 180")
    /\ threads' = Append(threads, [pc |-> "line 157", waits_for |-> NoProcess])
    /\ Respond(r, [status |-> 200, body |-> "started"])
    /\ UNCHANGED <<pc, args, ret, mocap_process, mocap_status, procs, figures>>

\* run, lines 155-162: the subprocess is launched and kept in the global.
run_popen(t) ==
    /\ t \in 1..Len(threads)
    /\ threads[t].pc = "line 157"
    /\ procs' = Append(procs, "running")
    /\ mocap_process' = Len(procs) + 1
    /\ threads' = [threads EXCEPT ![t].pc = "line 163"]
    /\ UNCHANGED <<pc, args, ret, mocap_status, reqs, figures>>

\* run, line 163: communicate() is called on the process the global names
\* now.
run_communicate(t) ==
    /\ t \in 1..Len(threads)
    /\ threads[t].pc = "line 163"
    /\ threads' = [threads EXCEPT ![t].pc = "waiting",
                                  ![t].waits_for = mocap_process]
    /\ UNCHANGED <<pc, args, ret, mocap_process, mocap_status, procs, reqs,
                   figures>>

\* run, lines 163-176: communicate() returns when its process has exited;
\* line 164 reads the return code of the process the global names now,
\* which is None unless that process has exited and has been waited for.
run_finish(t) ==
    /\ t \in 1..Len(threads)
    /\ threads[t].pc = "waiting"
    /\ ~IsRunning(threads[t].waits_for)
    /\ \E state \in {"done", "error"} :
           /\ state = "done" => procs[mocap_process] = "exit 0"
           /\ (state = "error" /\ mocap_process = threads[t].waits_for) =>
                  procs[mocap_process] # "exit 0"
           /\ mocap_status' = [state |-> state]
    /\ threads' = [threads EXCEPT ![t].pc = "finished"]
    /\ UNCHANGED <<pc, args, ret, mocap_process, procs, reqs, figures>>

\* A subprocess exits, by itself or after the signal of mocap_stop.
process_exits(p) ==
    /\ p \in 1..Len(procs)
    /\ IsRunning(p)
    /\ \E code \in {"exit 0", "exit 1"} : procs' = [procs EXCEPT ![p] = code]
    /\ UNCHANGED <<pc, args, ret, mocap_process, mocap_status, threads, reqs,
                   figures>>

\* mocap_status, line 187.
mocap_status_get(r) ==
    /\ Handling(r, "mocap_status", "begin")
    /\ Respond(r, [status |-> 200, body |-> mocap_status])
    /\ UNCHANGED <<pc, args, ret, mocap_process, mocap_status, procs, threads,
                   figures>>

\* mocap_stop, lines 194-197.
mocap_stop(r) ==
    /\ Handling(r, "mocap_stop", "begin")
    /\ IF mocap_process # NoProcess /\ IsRunning(mocap_process)
       THEN /\ procs' = [procs EXCEPT ![mocap_process] = "signalled"]
            /\ Respond(r, [status |-> 200, body |-> "stopped"])
       ELSE /\ procs' = procs
            /\ Respond(r, [status |-> 200, body |-> "not_running"])
    /\ UNCHANGED <<pc, args, ret, mocap_process, mocap_status, threads,
                   figures>>

\* analyze, lines 213-229.
analyze_begin(r) ==
    /\ Handling(r, "analyze", "begin")
    /\ IF analyze_validate(reqs[r].data) # NoRet
       THEN Respond(r, analyze_validate(reqs[r].data))
       ELSE Goto(r, "line 232")
    /\ UNCHANGED <<pc, args, ret, mocap_process, mocap_status, procs, threads,
                   figures>>

\* analyze, lines 232-248.
analyze_compute(r) ==
    /\ Handling(r, "analyze", "line 232")
    /\ reqs' = [reqs EXCEPT ![r].pc = "line 251",
                            ![r].result = analyze_core(reqs[r].data)]
    /\ UNCHANGED <<pc, args, ret, mocap_process, mocap_status, procs, threads,
                   figures>>

\* analyze, line 251, build_comparison_figure, line 88: plt.figure() opens a
\* figure in pyplot.
analyze_figure(r) ==
    /\ Handling(r, "analyze", "line 251")
    /\ figures' = figures \cup {r}
    /\ Goto(r, "line 117")
    /\ UNCHANGED <<pc, args, ret, mocap_process, mocap_status, procs, threads>>

\* analyze, figure_to_base64, line 79: plt.close(fig), and the response of
\* lines 253-276 (without the image).
analyze_respond(r) ==
    /\ Handling(r, "analyze", "line 117")
    /\ figures' = figures \ {r}
    /\ Respond(r, [outcome |-> "result", status |-> 200,
                   result |-> reqs[r].result])
    /\ UNCHANGED <<pc, args, ret, mocap_process, mocap_status, procs, threads>>

NextServer ==
    \/ Receive
    \/ \E r \in 1..MaxRequests :
           \/ mocap_start_check(r)
           \/ mocap_start_set_status(r)
           \/ mocap_start_thread(r)
           \/ mocap_status_get(r)
           \/ mocap_stop(r)
           \/ analyze_begin(r)
           \/ analyze_compute(r)
           \/ analyze_figure(r)
           \/ analyze_respond(r)
    \/ \E t \in 1..MaxRequests :
           \/ run_popen(t)
           \/ run_communicate(t)
           \/ run_finish(t)
           \/ process_exits(t)

SpecServer == InitServer /\ [][NextServer]_vars

(***************************************************************************)
(* Properties of the server (specification SpecServer).                    *)
(***************************************************************************)
Requests == 1..Len(reqs)

\* The response of an /analyze request handled alone, from its body only.
AloneResponse(data) ==
    IF analyze_validate(data) # NoRet THEN analyze_validate(data)
    ELSE [outcome |-> "result", status |-> 200,
          result |-> core_analysis(extract_hand_data(data.template_file),
                         extract_hand_data(data.patient_file),
                         ValueOr(data.sensitivity, DefaultSensitivity),
                         ValueOr(data.shape_tolerance, DefaultShapeTolerance))]

\* Every /analyze request that has been answered got the response it gets
\* when handled alone.
AnalyzeAsAlone ==
    \A r \in Requests :
        (reqs[r].route = "analyze" /\ reqs[r].pc = "done") =>
            reqs[r].resp = AloneResponse(reqs[r].data)

\* A step of the handler of the /analyze request r.
AnalyzeStep(r) ==
    /\ r \in Requests
    /\ reqs[r].route = "analyze"
    /\ reqs'[r] # reqs[r]

RunningProcesses == {p \in 1..Len(procs) : IsRunning(p)}

\* C19 as stated: under every interleaving of the start requests with the
\* threads they start, at most one mocap subprocess is running at any time.
C19_SingleRecording == Cardinality(RunningProcesses) <= 1

=============================================================================
